---------------------------- MODULE Spec2Model ----------------------------
(***************************************************************************)
(* HyperTile attention hijack (modules/sd_hijack_hypertile.py):            *)
(*   - possible_tile_sizes, the tile size selector;                        *)
(*   - the einops rearrangements the wrapper uses to fold a tile grid into *)
(*     the batch dimension and back;                                       *)
(*   - split_attention, the scoped patching of the attention submodules,   *)
(*     its forward wrapper, and the module-level state shared by           *)
(*     context_hypertile_vae, context_hypertile_unet and hypertile_set.    *)
(***************************************************************************)
EXTENDS Integers, Sequences, FiniteSets, TLC

VARIABLES
    tiles,            \* one call of possible_tile_sizes: arguments, pc, result
    tensor,           \* one partition / reassembly of a tensor by the wrapper
    height,           \* module global height (line 17)
    width,            \* module global width (line 18)
    max_h,            \* module global max_h (line 19)
    max_w,            \* module global max_w (line 20)
    error_reported,   \* module global error_reported (line 21)
    reset_needed,     \* module global reset_needed (line 22)
    forward,          \* per submodule: its forward handle
    original_forward, \* per submodule: its _original_forward attribute
    scope,            \* the split_attention context managers and their closures
    last,             \* the last operation and what its caller observed
    env               \* the host of this run: what it can ask for (never changes)

globals == <<height, width, max_h, max_w, error_reported, reset_needed>>
patches == <<forward, original_forward>>
machine == <<globals, patches, scope, last>>
vars == <<tiles, tensor, machine, env>>

None == "None"

\* height = None / width = None of lines 17-18, among integer sizes
NoneSize == -1

\* a submodule without / with the attribute _original_forward
NoAttribute == [set |-> FALSE]
Saved(f) == [set |-> TRUE, handle |-> f]

\* the pure-function variables while the machine runs, and conversely
NoTiles == [pc |-> "idle"]
NoTensor == [pc |-> "idle"]

Min2(a, b) == IF a <= b THEN a ELSE b
Max2(a, b) == IF a >= b THEN a ELSE b
Abs(a) == IF a < 0 THEN -a ELSE a

SetMin(S) == CHOOSE x \in S : \A y \in S : x <= y

(***************************************************************************)
(* Tile size selector                                                      *)
(***************************************************************************)

\* torch.arange(1, dimension + 1)
Arange1(dimension) == [i \in 1..dimension |-> i]

\* n[dimension // n // 8 * 8 * n == dimension], dropping the alignment by 8
AlignedDivisorsNoAlign(dimension, n) ==
    LET keep(x) == (dimension \div x) * x = dimension
    IN  SelectSeq(n, keep)

\* n[dimension // n // 8 * 8 * n == dimension]
AlignedDivisors(dimension, n) ==
    LET keep(x) == ((dimension \div x) \div 8) * 8 * x = dimension
    IN  SelectSeq(n, keep)

\* n[dimension // n >= min_tile_size]
AboveMin(dimension, min_tile_size, n) ==
    LET keep(x) == (dimension \div x) >= min_tile_size
    IN  SelectSeq(n, keep)

\* (dimension // n).sub(tile_size).abs()
Distances(dimension, tile_size, n) ==
    [i \in DOMAIN n |-> Abs((dimension \div n[i]) - tile_size)]

\* The index permutations that sort keys in ascending order.  torch.argsort
\* is called with its default stable=False, so the relative order of equal
\* keys is whatever the sorting kernel of the build produces: every
\* ordering of a group of equal keys is a possible outcome.
RECURSIVE ArgsortFrom(_, _)
ArgsortFrom(keys, rest) ==
    IF rest = {} THEN {<<>>}
    ELSE LET m == SetMin({keys[i] : i \in rest})
             firsts == {i \in rest : keys[i] = m}
         IN  UNION {{<<i>> \o t : t \in ArgsortFrom(keys, rest \ {i})} : i \in firsts}

\* argsort returning the positions farthest-first (descending keys)
RECURSIVE ArgsortDescendingFrom(_, _)
ArgsortDescendingFrom(keys, rest) ==
    IF rest = {} THEN {<<>>}
    ELSE LET m == SetMin({-keys[i] : i \in rest})
             firsts == {i \in rest : -keys[i] = m}
         IN  UNION {{<<i>> \o t : t \in ArgsortDescendingFrom(keys, rest \ {i})} : i \in firsts}

ArgsortDescending(keys) == ArgsortDescendingFrom(keys, DOMAIN keys)

Argsort(keys) == ArgsortFrom(keys, DOMAIN keys)

\* pos[:tile_options]
Take(pos, tile_options) == SubSeq(pos, 1, Min2(Len(pos), tile_options))

\* n[pos].tolist()
Gather(n, pos) == [i \in DOMAIN pos |-> n[pos[i]]]

\* The lists possible_tile_sizes can return when its assertion passes.
possible_tile_sizes(dimension, tile_size, min_tile_size, tile_options) ==
    LET clamp == Min2(min_tile_size, Min2(tile_size, dimension))
        n1 == AlignedDivisors(dimension, Arange1(dimension))
        n2 == AboveMin(dimension, clamp, n1)
    IN  {Gather(n2, Take(pos, tile_options)) :
            pos \in Argsort(Distances(dimension, tile_size, n2))}


(***************************************************************************)
(* Tensors and the wrapper's rearrangements.  A tensor is its shape and    *)
(* its elements in row-major (C contiguous) order; einops.rearrange        *)
(* computes each output element from the decomposition of its index.       *)
(***************************************************************************)
RECURSIVE Product(_)
Product(shape) == IF Len(shape) = 0 THEN 1 ELSE shape[1] * Product(Tail(shape))

\* x, "b c (nh h) (nw w) -> (b nh nw) c h w": einops accepts the pattern
Partition4DOk(x, nh, nw) ==
    /\ Len(x.shape) = 4
    /\ x.shape[3] % nh = 0
    /\ x.shape[4] % nw = 0

\* rearrange(x, "b c (nh h) (nw w) -> (b nh nw) c h w", nh=nh, nw=nw)
Partition4D(x, nh, nw) ==
    LET B == x.shape[1]
        C == x.shape[2]
        H == x.shape[3]
        W == x.shape[4]
        h == H \div nh
        w == W \div nw
        src(k) ==
            LET xx == k % w
                yy == (k \div w) % h
                ci == (k \div (w * h)) % C
                bb == k \div (w * h * C)
                j == bb % nw
                i == (bb \div nw) % nh
                bi == bb \div (nw * nh)
            IN  ((bi * C + ci) * H + (i * h + yy)) * W + (j * w + xx)
    IN  [shape |-> <<B * nh * nw, C, h, w>>,
         data |-> [k \in 1..Len(x.data) |-> x.data[src(k - 1) + 1]]]

\* out, "(b nh nw) c h w -> b c (nh h) (nw w)": einops accepts the pattern
Reassemble4DOk(out, nh, nw) ==
    /\ Len(out.shape) = 4
    /\ out.shape[1] % (nh * nw) = 0

\* the reassembly with the tile grid unfolded as (b nw nh)
Reassemble4DSwapped(out, nh, nw) ==
    LET b == out.shape[1] \div (nh * nw)
        C == out.shape[2]
        h == out.shape[3]
        w == out.shape[4]
        H == nh * h
        W == nw * w
        src(k) ==
            LET X == k % W
                Y == (k \div W) % H
                ci == (k \div (W * H)) % C
                bi == k \div (W * H * C)
                i == Y \div h
                yy == Y % h
                j == X \div w
                xx == X % w
            IN  ((((bi * nw + j) * nh + i) * C + ci) * h + yy) * w + xx
    IN  [shape |-> <<b, C, H, W>>,
         data |-> [k \in 1..Len(out.data) |-> out.data[src(k - 1) + 1]]]

\* rearrange(out, "(b nh nw) c h w -> b c (nh h) (nw w)", nh=nh, nw=nw)
Reassemble4D(out, nh, nw) ==
    LET b == out.shape[1] \div (nh * nw)
        C == out.shape[2]
        h == out.shape[3]
        w == out.shape[4]
        H == nh * h
        W == nw * w
        src(k) ==
            LET X == k % W
                Y == (k \div W) % H
                ci == (k \div (W * H)) % C
                bi == k \div (W * H * C)
                i == Y \div h
                yy == Y % h
                j == X \div w
                xx == X % w
            IN  ((((bi * nh + i) * nw + j) * C + ci) * h + yy) * w + xx
    IN  [shape |-> <<b, C, H, W>>,
         data |-> [k \in 1..Len(out.data) |-> out.data[src(k - 1) + 1]]]

\* x, "b (nh h nw w) c -> (b nh nw) (h w) c": einops accepts the pattern
PartitionSeqOk(x, h, w, nh, nw) ==
    /\ Len(x.shape) = 3
    /\ x.shape[2] = nh * h * nw * w

\* rearrange(x, "b (nh h nw w) c -> (b nh nw) (h w) c", h=h, w=w, nh=nh, nw=nw)
PartitionSeq(x, h, w, nh, nw) ==
    LET B == x.shape[1]
        L == x.shape[2]
        C == x.shape[3]
        src(k) ==
            LET ci == k % C
                p == (k \div C) % (h * w)
                bb == k \div (C * h * w)
                xx == p % w
                yy == p \div w
                j == bb % nw
                i == (bb \div nw) % nh
                bi == bb \div (nw * nh)
            IN  (bi * L + (((i * h + yy) * nw + j) * w + xx)) * C + ci
    IN  [shape |-> <<B * nh * nw, h * w, C>>,
         data |-> [k \in 1..Len(x.data) |-> x.data[src(k - 1) + 1]]]

\* out, "(b nh nw) hw c -> b nh nw hw c": einops accepts the pattern
SplitBatchOk(out, nh, nw) ==
    /\ Len(out.shape) = 3
    /\ out.shape[1] % (nh * nw) = 0

\* rearrange(out, "(b nh nw) hw c -> b nh nw hw c", nh=nh, nw=nw)
SplitBatch(out, nh, nw) ==
    [shape |-> <<out.shape[1] \div (nh * nw), nh, nw, out.shape[2], out.shape[3]>>,
     data |-> out.data]

\* out, "b nh nw (h w) c -> b (nh h nw w) c": einops accepts the pattern
MergeTilesOk(out, h, w) ==
    /\ Len(out.shape) = 5
    /\ out.shape[4] = h * w

\* the merge reading the tiles as "b nh nw (w h) c"
MergeTilesTransposed(out, h, w) ==
    LET b == out.shape[1]
        nh == out.shape[2]
        nw == out.shape[3]
        C == out.shape[5]
        L == nh * h * nw * w
        src(k) ==
            LET ci == k % C
                q == (k \div C) % L
                bi == k \div (C * L)
                xx == q % w
                j == (q \div w) % nw
                yy == (q \div (w * nw)) % h
                i == q \div (w * nw * h)
            IN  ((((bi * nh + i) * nw + j) * (h * w)) + (xx * h + yy)) * C + ci
    IN  [shape |-> <<b, L, C>>,
         data |-> [k \in 1..Len(out.data) |-> out.data[src(k - 1) + 1]]]

\* rearrange(out, "b nh nw (h w) c -> b (nh h nw w) c", h=h, w=w)
MergeTiles(out, h, w) ==
    LET b == out.shape[1]
        nh == out.shape[2]
        nw == out.shape[3]
        C == out.shape[5]
        L == nh * h * nw * w
        src(k) ==
            LET ci == k % C
                q == (k \div C) % L
                bi == k \div (C * L)
                xx == q % w
                j == (q \div w) % nw
                yy == (q \div (w * nw)) % h
                i == q \div (w * nw * h)
            IN  ((((bi * nh + i) * nw + j) * (h * w)) + (yy * w + xx)) * C + ci
    IN  [shape |-> <<b, L, C>>,
         data |-> [k \in 1..Len(out.data) |-> out.data[src(k - 1) + 1]]]

\* a tensor of the given shape whose elements are pairwise distinct
Iota(shape) == [shape |-> shape, data |-> [k \in 1..Product(shape) |-> k]]

(***************************************************************************)
(* The networks.  layer.named_modules() yields each submodule once, in a   *)
(* fixed order, with its qualified name; cls is the submodule's            *)
(* __class__.__qualname__.                                                 *)
(***************************************************************************)
Layers == {"unet", "vae", "plain"}

named_modules(layer) ==
    CASE layer = "unet" ->
            << [id |-> "unet.attn1", name |-> "blocks.0.attn1", cls |-> "CrossAttention"],
               [id |-> "unet.attn2", name |-> "blocks.0.attn2", cls |-> "CrossAttention"],
               [id |-> "unet.proj", name |-> "blocks.0.proj", cls |-> "Linear"],
               [id |-> "unet.attn_2", name |-> "mid.attn_2", cls |-> "Attention"] >>
      [] layer = "vae" ->
            << [id |-> "vae.conv", name |-> "decoder.conv_in", cls |-> "Conv2d"],
               [id |-> "vae.attn_1", name |-> "decoder.mid.attn_1", cls |-> "AttnBlock"],
               [id |-> "vae.attn", name |-> "encoder.mid.attentions.0", cls |-> "Attention"] >>
      [] layer = "plain" ->
            << [id |-> "plain.conv", name |-> "conv", cls |-> "Conv2d"] >>

ModuleIds == UNION {{named_modules(l)[i].id : i \in DOMAIN named_modules(l)} : l \in Layers}

LayerIds(layer) == {named_modules(layer)[i].id : i \in DOMAIN named_modules(layer)}

\* name.endswith(suffix)
EndsWith(name, suffix) ==
    CASE suffix = "attn2" -> name \in {"blocks.0.attn2"}
      [] suffix = "attn_2" -> name \in {"mid.attn_2"}

\* lines 116-118 with every name taken for a self-attention name
IsHijackedIgnoringName(mod) ==
    mod.cls \in {"Attention", "CrossAttention", "AttnBlock"}

\* lines 116-118: the submodules the loop patches
IsHijacked(mod) ==
    /\ mod.cls \in {"Attention", "CrossAttention", "AttnBlock"}
    /\ ~(EndsWith(mod.name, "attn2") \/ EndsWith(mod.name, "attn_2"))

(***************************************************************************)
(* Forward handles.  The class's own forward is <<>>; the wrapper that     *)
(* self_attn_forward of scope s builds around handle f is Append(f, s).    *)
(***************************************************************************)
OriginalForward == <<>>

self_attn_forward(s, f) == Append(f, s)

\* lines 119-120 for the first k submodules the loop reaches, then, when
\* half holds, line 119 alone for the next one
RECURSIVE PatchLoop(_, _, _, _, _)
PatchLoop(st, mods, s, k, half) ==
    IF Len(mods) = 0 THEN st
    ELSE LET mod == mods[1]
         IN  IF ~IsHijacked(mod) THEN PatchLoop(st, Tail(mods), s, k, half)
             ELSE IF k > 0 THEN
                 PatchLoop([fwd |-> [st.fwd EXCEPT ![mod.id] = self_attn_forward(s, st.fwd[mod.id])],
                            orig |-> [st.orig EXCEPT ![mod.id] = Saved(st.fwd[mod.id])],
                            done |-> st.done \cup {mod.id}],
                           Tail(mods), s, k - 1, half)
             ELSE IF half THEN
                 [fwd |-> st.fwd,
                  orig |-> [st.orig EXCEPT ![mod.id] = Saved(st.fwd[mod.id])],
                  done |-> st.done \cup {mod.id}]
             ELSE st

\* the number of submodules of the layer the loop patches
HijackCount(layer) ==
    Cardinality({i \in DOMAIN named_modules(layer) : IsHijacked(named_modules(layer)[i])})

\* lines 123-126 deleting the saved handle without putting it back
UnpatchForget(st, layer) ==
    [fwd |-> st.fwd,
     orig |-> [m \in ModuleIds |->
                IF m \in LayerIds(layer) THEN NoAttribute ELSE st.orig[m]]]

\* lines 123-126 leaving the saved handle on the submodule
UnpatchKeepSaved(st, layer) ==
    [fwd |-> [m \in ModuleIds |->
                IF m \in LayerIds(layer) /\ st.orig[m].set THEN st.orig[m].handle ELSE st.fwd[m]],
     orig |-> st.orig]

\* lines 123-126: for every submodule of layer that has _original_forward,
\* put it back as forward and delete the attribute
Unpatch(st, layer) ==
    [fwd |-> [m \in ModuleIds |->
                IF m \in LayerIds(layer) /\ st.orig[m].set THEN st.orig[m].handle ELSE st.fwd[m]],
     orig |-> [m \in ModuleIds |->
                IF m \in LayerIds(layer) THEN NoAttribute ELSE st.orig[m]]]

(***************************************************************************)
(* Scopes: the generator context managers split_attention returns.         *)
(***************************************************************************)
MaxScopes == 2
ScopeIds == 1..MaxScopes

FreeScope == [pc |-> "free"]

\* the slots the host can still put a context manager in
FreeSlots == {s \in env.slots : scope[s].pc = "free"}

\* the state every pure-function specification leaves the machine in
MachineImported ==
    /\ height = NoneSize
    /\ width = NoneSize
    /\ max_h = 0
    /\ max_w = 0
    /\ error_reported = FALSE
    /\ reset_needed = FALSE
    /\ forward = [m \in ModuleIds |-> OriginalForward]
    /\ original_forward = [m \in ModuleIds |-> NoAttribute]
    /\ scope = [s \in ScopeIds |-> FreeScope]
    /\ last = [op |-> "import"]

\* a host that asks for nothing
NoHost == [slots |-> {}, dims |-> {}, cells |-> {}, sd_models |-> {},
           backends |-> {}, enabled |-> {}, nests |-> FALSE]

MachineIdle == MachineImported /\ env = NoHost

(***************************************************************************)
(* The host's request p and settings.  An attribute a holder does not have *)
(* is Absent; the ldm holder keeps its UNet one level down, in             *)
(* sd_model.model.diffusion_model.                                         *)
(***************************************************************************)
Absent == "<absent>"

Holders ==
    [ diffusers |-> [vae |-> "vae", unet |-> "unet",
                     first_stage_model |-> Absent, model |-> Absent],
      ldm |-> [vae |-> Absent, unet |-> Absent,
               first_stage_model |-> "vae", model |-> "DiffusionWrapper"],
      plain |-> [vae |-> "plain", unet |-> "plain",
                 first_stage_model |-> "plain", model |-> "PlainWrapper"],
      stripped |-> [vae |-> None, unet |-> None,
                    first_stage_model |-> None, model |-> "EmptyWrapper"],
      bare |-> [vae |-> Absent, unet |-> Absent,
                first_stage_model |-> Absent, model |-> Absent] ]

Wrappers ==
    [ DiffusionWrapper |-> [diffusion_model |-> "unet"],
      PlainWrapper |-> [diffusion_model |-> "plain"],
      EmptyWrapper |-> [diffusion_model |-> Absent] ]

SdModels == {None} \cup DOMAIN Holders
Backends == {"DIFFUSERS", "ORIGINAL"}

\* getattr(obj, name, None) on a record of attributes
GetAttr(obj, name) == IF obj[name] = Absent THEN None ELSE obj[name]

\* line 139
LocateVae(sd_model, backend) ==
    IF backend = "DIFFUSERS" THEN GetAttr(Holders[sd_model], "vae")
    ELSE GetAttr(Holders[sd_model], "first_stage_model")

\* line 158: p.sd_model.model is a plain attribute read, an AttributeError
\* when the holder has no such attribute
LocateUnet(sd_model, backend) ==
    IF backend = "DIFFUSERS" THEN GetAttr(Holders[sd_model], "unet")
    ELSE IF Holders[sd_model].model = Absent THEN "AttributeError"
    ELSE IF Holders[sd_model].model = None THEN None
    ELSE GetAttr(Wrappers[Holders[sd_model].model], "diffusion_model")

\* bounds of the request: latent edges 1..MaxLatent, pixel sizes 8 per
\* latent cell, and the in-between sizes that are no multiple of 8
MaxLatent == 2
RequestDims == {d \in 8..(8 * MaxLatent) : d % 4 = 0}
\* the settings hypertile_vae_tile / hypertile_unet_tile: 8 px per cell
MaxTileCells == 1
TileSizeOptions == {8 * k : k \in 1..MaxTileCells}

\* min_tile_size=128 of lines 145 and 164
ContextMinTileSize == 128
\* swap_size=1 of lines 145 and 164
ContextSwapSize == 1
\* depth: int=0 of line 44
DefaultDepth == 0

\* split_attention(layer, ...): the generator is created, its body not run
NewScope(layer, tile_size, min_tile_size, swap_size, depth) ==
    [pc |-> "created", layer |-> layer, tile_size |-> tile_size,
     min_tile_size |-> min_tile_size, swap_size |-> swap_size, depth |-> depth]

\* the slot a new context manager takes
NextSlot == SetMin(FreeSlots)

\* lines 131-135 and 150-154
ContextReset(p) ==
    /\ error_reported' = FALSE
    /\ height' = p.height
    /\ width' = p.width
    /\ max_h' = 0
    /\ max_w' = 0

\* lines 136-145 (stage "vae") and 155-164 (stage "unet") once the globals
\* are set: what the call returns or raises
ContextResult(stage, p, enabled, backend, tile) ==
    IF p.sd_model = None \/ ~enabled THEN [kind |-> "nullcontext"]
    ELSE LET target == IF stage = "vae" THEN LocateVae(p.sd_model, backend)
                       ELSE LocateUnet(p.sd_model, backend)
         IN  IF target = "AttributeError" THEN [kind |-> "raise", error |-> "AttributeError"]
             ELSE IF target = None THEN [kind |-> "nullcontext", warning |-> TRUE]
             ELSE [kind |-> "split_attention", layer |-> target, tile_size |-> tile]

\* context_hypertile_vae(p) / context_hypertile_unet(p)
ContextHypertile(stage, p, enabled, backend, tile) ==
    LET r == ContextResult(stage, p, enabled, backend, tile)
    IN  /\ r.kind = "split_attention" => FreeSlots # {}
        /\ ContextReset(p)
        /\ UNCHANGED <<reset_needed, patches, tiles, tensor, env>>
        /\ scope' = IF r.kind = "split_attention"
                    THEN [scope EXCEPT ![NextSlot] =
                            NewScope(r.layer, r.tile_size, ContextMinTileSize,
                                     ContextSwapSize, DefaultDepth)]
                    ELSE scope
        /\ last' = [op |-> "context", stage |-> stage, p |-> p, enabled |-> enabled,
                    backend |-> backend, result |-> r.kind]

Requests == [height : env.dims, width : env.dims, sd_model : env.sd_models]

context_hypertile_vae ==
    \E p \in Requests, enabled \in env.enabled, backend \in env.backends,
       tile \in TileSizeOptions :
        ContextHypertile("vae", p, enabled, backend, tile)

context_hypertile_unet ==
    \E p \in Requests, enabled \in env.enabled, backend \in env.backends,
       tile \in TileSizeOptions :
        ContextHypertile("unet", p, enabled, backend, tile)

\* lines 168-172
hypertile_set ==
    \E p \in [height : env.dims, width : env.dims] :
        /\ error_reported' = FALSE
        /\ height' = p.height
        /\ width' = p.width
        /\ reset_needed' = TRUE
        /\ UNCHANGED <<max_h, max_w, patches, scope, tiles, tensor, env>>
        /\ last' = [op |-> "hypertile_set", height |-> p.height, width |-> p.width]

(***************************************************************************)
(* The forward wrapper (lines 62-112).  It is evaluated on a state record  *)
(* st (the module globals and the scopes' closures) and yields the set of  *)
(* its possible outcomes: the state it leaves, what it returns or raises,  *)
(* and the tensors the wrapped forward computation received.               *)
(***************************************************************************)

\* the wrapped forward computation of a submodule is outside this module:
\* it returns a tensor of its input's shape, or raises
ForwardValue(v) == v + 1000
OriginalResult(x) == [shape |-> x.shape, data |-> [k \in DOMAIN x.data |-> ForwardValue(x.data[k])]]

\* round(math.sqrt(num / den)): round to nearest, an exact half to even
RoundSqrt(num, den) ==
    LET k == SetMin({j \in 0..num : 4 * num <= (2 * j + 1) * (2 * j + 1) * den})
    IN  IF 4 * num = (2 * k + 1) * (2 * k + 1) * den /\ k % 2 = 1 THEN k + 1 ELSE k

RECURSIVE Pow4(_)
Pow4(k) == IF k = 0 THEN 1 ELSE 4 * Pow4(k - 1)

\* round(math.log(r, 2)) for r >= 1: the k with 2^(k - 1/2) <= r < 2^(k + 1/2)
RoundLog2(r) ==
    CHOOSE k \in 0..r : Pow4(k) <= 2 * r * r /\ 2 * r * r < Pow4(k + 1)

Returns(st, out, calls, info) ==
    [st |-> st, error |-> "", out |-> out, calls |-> calls, info |-> info]

Raises(st, error, x, calls, info) ==
    [st |-> st, error |-> error, out |-> x, calls |-> calls, info |-> info]

\* what a call did: the grid it used, whether it tried to partition its input
\* (tried) and did (split), whether the except clause ran (caught) and
\* whether it logged
NoInfo == [grid |-> <<>>, tried |-> FALSE, split |-> FALSE, caught |-> FALSE,
           logged |-> FALSE]

\* lines 78-92: the states the bookkeeping of a flattened-sequence call can
\* leave, reset_nhs / reset_nws drawing the lists the selector can return
TrackDimensions(st, s, h, w) ==
    LET sc == st.scope[s]
        pts(dimension) ==
            possible_tile_sizes(dimension, sc.tile_size, sc.min_tile_size, sc.swap_size)
    IN  IF st.reset_needed THEN
            {[st EXCEPT !.scope[s].nhs = a, !.scope[s].nws = b,
                        !.max_h = st.height, !.max_w = st.width,
                        !.reset_needed = FALSE] :
                a \in pts(st.height), b \in pts(st.width)}
        ELSE
            LET newh == h > st.max_h
                neww == w > st.max_w
                hs == IF newh THEN pts(8 * h) ELSE {sc.nhs}
                ws == IF neww THEN pts(8 * w) ELSE {sc.nws}
            IN  {[st EXCEPT !.scope[s].nhs = a, !.scope[s].nws = b,
                            !.height = IF newh THEN 8 * h ELSE st.height,
                            !.max_h = IF newh THEN Max2(st.max_h, h) ELSE st.max_h,
                            !.width = IF neww THEN 8 * w ELSE st.width,
                            !.max_w = IF neww THEN Max2(st.max_w, w) ELSE st.max_w] :
                    a \in hs, b \in ws}

\* lines 106-110: the except clause up to the fallback call; the scope
\* remembers that one of its wrappers has caught a failure
Report(st, s) == [st EXCEPT !.error_reported = TRUE, !.scope[s].caught = TRUE]

RECURSIVE CallHandle(_, _, _)

\* lines 66-72 partitioning for every grid, the 1 x 1 grid included
Wrapper4DAnyGrid(st, inner, x, nh, nw) ==
    LET info == [NoInfo EXCEPT !.grid = <<nh, nw>>, !.tried = TRUE]
    IN  IF ~Partition4DOk(x, nh, nw)
        THEN {Raises(st, "EinopsError", x, <<>>, info)}
        ELSE LET xp == Partition4D(x, nh, nw)
                 isplit == [info EXCEPT !.split = TRUE]
             IN  {IF r.error # "" THEN Raises(r.st, r.error, x, r.calls, isplit)
                  ELSE Returns(r.st, Reassemble4D(r.out, nh, nw), r.calls, isplit) :
                     r \in CallHandle(st, inner, xp)}

\* lines 66-72: the 4-D (VAE) branch with the grid (nh, nw)
Wrapper4D(st, inner, x, nh, nw) ==
    LET info == [NoInfo EXCEPT !.grid = <<nh, nw>>, !.tried = (nh * nw > 1)]
    IN  IF nh * nw > 1 THEN
            IF ~Partition4DOk(x, nh, nw)
            THEN {Raises(st, "EinopsError", x, <<>>, info)}
            ELSE LET xp == Partition4D(x, nh, nw)
                     isplit == [info EXCEPT !.split = TRUE]
                 IN  {IF r.error # "" THEN Raises(r.st, r.error, x, r.calls, isplit)
                      ELSE IF ~Reassemble4DOk(r.out, nh, nw)
                           THEN Raises(r.st, "EinopsError", x, r.calls, isplit)
                           ELSE Returns(r.st, Reassemble4D(r.out, nh, nw), r.calls, isplit) :
                         r \in CallHandle(st, inner, xp)}
        ELSE {IF r.error # "" THEN Raises(r.st, r.error, x, r.calls, info)
              ELSE Returns(r.st, r.out, r.calls, info) :
                 r \in CallHandle(st, inner, x)}

\* lines 106-111: the except clause; xcur is what the name x is bound to
\* when the exception is caught
Fallback(st, s, inner, x, xcur, calls, info) ==
    LET st2 == Report(st, s)
        i2 == [info EXCEPT !.caught = TRUE, !.logged = ~st.error_reported]
    IN  {IF r.error # "" THEN Raises(r.st, r.error, x, calls \o r.calls, i2)
         ELSE Returns(r.st, r.out, calls \o r.calls, i2) :
            r \in CallHandle(st2, inner, xcur)}

\* lines 99-111: the try statement
TrySplit(st, s, inner, x, h, w, nh, nw, do_split) ==
    LET info == [NoInfo EXCEPT !.grid = <<nh, nw>>, !.tried = do_split]
    IN  IF do_split THEN
            IF ~PartitionSeqOk(x, h \div nh, w \div nw, nh, nw)
            THEN Fallback(st, s, inner, x, x, <<>>, info)
            ELSE LET xp == PartitionSeq(x, h \div nh, w \div nw, nh, nw)
                     isplit == [info EXCEPT !.split = TRUE]
                 IN  UNION {
                        IF r.error # "" \/ ~SplitBatchOk(r.out, nh, nw)
                        THEN Fallback(r.st, s, inner, x, xp, r.calls, isplit)
                        ELSE LET o1 == SplitBatch(r.out, nh, nw)
                             IN  IF ~MergeTilesOk(o1, h \div nh, w \div nw)
                                 THEN Fallback(r.st, s, inner, x, xp, r.calls, isplit)
                                 ELSE {Returns(r.st, MergeTiles(o1, h \div nh, w \div nw),
                                               r.calls, isplit)} :
                        r \in CallHandle(st, inner, xp)}
        ELSE UNION {
                IF r.error # "" THEN Fallback(r.st, s, inner, x, x, r.calls, info)
                ELSE {Returns(r.st, r.out, r.calls, info)} :
                r \in CallHandle(st, inner, x)}

\* line 97 without the test for more than one tile
DoSplitAnyGrid(curr_depth, depth, h, w, nh, nw) ==
    /\ curr_depth <= depth
    /\ h % nh = 0
    /\ w % nw = 0

\* line 97: do_split
DoSplit(curr_depth, depth, h, w, nh, nw) ==
    /\ curr_depth <= depth
    /\ h % nh = 0
    /\ w % nw = 0
    /\ nh * nw > 1

\* lines 74-111: the flattened-sequence (UNet) branch; nh, nw were drawn by
\* make_ns from the lists as they were when the call began
WrapperSeq(st, s, inner, x, nh0, nw0) ==
    LET sc == st.scope[s]
        hw == x.shape[2]
        h == RoundSqrt(sc.ar[1] * hw, sc.ar[2])
        w == RoundSqrt(sc.ar[2] * hw, sc.ar[1])
        info0 == NoInfo
    IN  UNION {
            IF h = 0 THEN {Raises(st1, "ZeroDivisionError", x, <<>>, info0)}
            ELSE LET down_ratio == (st1.height \div 8) \div h
                 IN  IF down_ratio = 0 THEN {Raises(st1, "ValueError", x, <<>>, info0)}
                     ELSE LET curr_depth == RoundLog2(down_ratio)
                              nh == Max2(1, nh0 \div down_ratio)
                              nw == Max2(1, nw0 \div down_ratio)
                              do_split == DoSplit(curr_depth, sc.depth, h, w, nh, nw)
                          IN  TrySplit(st1, s, inner, x, h, w, nh, nw, do_split) :
            st1 \in TrackDimensions(st, s, h, w)}

\* lines 62-112: the wrapper scope s put around the handle inner
wrapper(st, s, inner, x) ==
    LET sc == st.scope[s]
    IN  IF Len(sc.nhs) = 0 \/ Len(sc.nws) = 0
        THEN {Raises(st, "ValueError", x, <<>>, NoInfo)}
        ELSE UNION {
                IF Len(x.shape) = 4 THEN Wrapper4D(st, inner, x, sc.nhs[i], sc.nws[j])
                ELSE WrapperSeq(st, s, inner, x, sc.nhs[i], sc.nws[j]) :
                i \in DOMAIN sc.nhs, j \in DOMAIN sc.nws}

\* a call of the forward handle f on x
CallHandle(st, f, x) ==
    IF Len(f) = 0
    THEN {Returns(st, OriginalResult(x), <<x>>, NoInfo),
          Raises(st, "ForwardError", x, <<x>>, NoInfo)}
    ELSE wrapper(st, f[Len(f)], SubSeq(f, 1, Len(f) - 1), x)

(***************************************************************************)
(* Entering and leaving a scope, and calls of patched submodules.          *)
(***************************************************************************)
MaxSwapSize == 1
MaxDepth == 0

\* a direct call split_attention(layer, tile_size, min_tile_size, swap_size, depth)
split_attention ==
    \E layer \in Layers, tile_size \in TileSizeOptions, swap_size \in 1..MaxSwapSize,
       depth \in 0..MaxDepth :
        /\ FreeSlots # {}
        /\ scope' = [scope EXCEPT ![NextSlot] =
                        NewScope(layer, tile_size, ContextMinTileSize, swap_size, depth)]
        /\ last' = [op |-> "split_attention"]
        /\ UNCHANGED <<globals, patches, tiles, tensor, env>>

\* the execution model of the host: unless it nests scopes, it activates no
\* scope over submodules that an active scope covers
NoOverlap(s) ==
    env.nests \/ \A t \in ScopeIds :
                    (t # s /\ scope[t].pc = "active") =>
                        LayerIds(scope[t].layer) \cap LayerIds(scope[s].layer) = {}

\* a wrapper keeps the closure of the scope that built it alive: scope s's
\* closure is still referenced by a forward handle or a saved handle
Referenced(s, fwd, orig) ==
    \E m \in ModuleIds :
        \/ \E i \in DOMAIN fwd[m] : fwd[m][i] = s
        \/ orig[m].set /\ \E i \in DOMAIN orig[m].handle : orig[m].handle[i] = s

\* the generator of scope s has finished: its closure goes unless a wrapper
\* still holds it
Finished(s, fwd, orig) ==
    IF Referenced(s, fwd, orig) THEN [scope[s] EXCEPT !.pc = "exited"] ELSE FreeScope

\* line 46 fails: height / width with a None or zero operand
EnterFailsOnRatio(s) ==
    /\ scope[s].pc = "created"
    /\ NoOverlap(s)
    /\ height = NoneSize \/ width = NoneSize \/ width = 0
    /\ scope' = [scope EXCEPT ![s] = FreeScope]
    /\ last' = [op |-> "enter", scope |-> s, layer |-> scope[s].layer,
                error |-> IF height = NoneSize \/ width = NoneSize THEN "TypeError"
                          ELSE "ZeroDivisionError",
                before |-> forward, patched |-> {}]
    /\ UNCHANGED <<globals, patches, tiles, tensor, env>>

\* lines 46-48: the closure of an entered scope
Closure(s, nhs, nws) ==
    [pc |-> "active", layer |-> scope[s].layer, tile_size |-> scope[s].tile_size,
     min_tile_size |-> scope[s].min_tile_size, swap_size |-> scope[s].swap_size,
     depth |-> scope[s].depth, ar |-> <<height, width>>, nhs |-> nhs, nws |-> nws,
     before |-> forward, patched |-> {}, caught |-> FALSE]

\* lines 46-121: the scope is entered and yields
EnterYields(s) ==
    /\ scope[s].pc = "created"
    /\ NoOverlap(s)
    /\ height # NoneSize /\ width # NoneSize /\ width # 0
    /\ \E nhs \in possible_tile_sizes(height, scope[s].tile_size,
                                      scope[s].min_tile_size, scope[s].swap_size),
          nws \in possible_tile_sizes(width, scope[s].tile_size,
                                      scope[s].min_tile_size, scope[s].swap_size) :
          LET st == PatchLoop([fwd |-> forward, orig |-> original_forward, done |-> {}],
                              named_modules(scope[s].layer), s,
                              HijackCount(scope[s].layer), FALSE)
          IN  /\ forward' = st.fwd
              /\ original_forward' = st.orig
              /\ scope' = [scope EXCEPT ![s] =
                              [Closure(s, nhs, nws) EXCEPT !.patched = st.done]]
    /\ last' = [op |-> "enter", scope |-> s, layer |-> scope[s].layer, error |-> "",
                before |-> forward, patched |-> scope'[s].patched]
    /\ UNCHANGED <<globals, tiles, tensor, env>>

\* lines 114-126: an exception in the patching loop after k submodules
\* (half: between lines 119 and 120 of the next one); finally runs
EnterFailsPatching(s) ==
    /\ scope[s].pc = "created"
    /\ NoOverlap(s)
    /\ height # NoneSize /\ width # NoneSize /\ width # 0
    /\ \E k \in 0..HijackCount(scope[s].layer), half \in BOOLEAN :
          /\ half => k < HijackCount(scope[s].layer)
          /\ LET st == PatchLoop([fwd |-> forward, orig |-> original_forward, done |-> {}],
                                 named_modules(scope[s].layer), s, k, half)
                 un == Unpatch(st, scope[s].layer)
             IN  /\ forward' = un.fwd
                 /\ original_forward' = un.orig
                 /\ scope' = [scope EXCEPT ![s] =
                                 Finished(s, un.fwd, un.orig)]
                 /\ last' = [op |-> "enter", scope |-> s, layer |-> scope[s].layer,
                             error |-> "PatchError", before |-> forward,
                             patched |-> st.done]
    /\ UNCHANGED <<globals, tiles, tensor, env>>

\* lines 122-126: the with block ends, normally or by an exception
ScopeExit(s) ==
    /\ scope[s].pc = "active"
    /\ LET un == Unpatch([fwd |-> forward, orig |-> original_forward], scope[s].layer)
       IN  /\ forward' = un.fwd
           /\ original_forward' = un.orig
           /\ scope' = [scope EXCEPT ![s] = Finished(s, un.fwd, un.orig)]
    /\ \E by_exception \in BOOLEAN :
          last' = [op |-> "exit", scope |-> s, layer |-> scope[s].layer,
                   by_exception |-> by_exception,
                   before |-> scope[s].before, patched |-> scope[s].patched]
    /\ UNCHANGED <<globals, tiles, tensor, env>>

MachineState ==
    [height |-> height, width |-> width, max_h |-> max_h, max_w |-> max_w,
     error_reported |-> error_reported, reset_needed |-> reset_needed, scope |-> scope]

\* the tensors the host passes: 4-D with edges among env.cells, flattened
\* sequences of every length up to the largest such area
Inputs ==
    {Iota(<<1, 1, H, W>>) : H \in env.cells, W \in env.cells}
    \cup {Iota(<<1, hw, 1>>) : hw \in {n \in 1..(MaxLatent * MaxLatent) :
                                          \E a \in env.cells : n <= a * a}}

\* module(x) on a submodule whose forward is a wrapper
ForwardCall(m) ==
    /\ forward[m] # OriginalForward
    /\ \E x \in Inputs :
          \E o \in CallHandle(MachineState, forward[m], x) :
              /\ height' = o.st.height
              /\ width' = o.st.width
              /\ max_h' = o.st.max_h
              /\ max_w' = o.st.max_w
              /\ error_reported' = o.st.error_reported
              /\ reset_needed' = o.st.reset_needed
              /\ scope' = o.st.scope
              /\ last' = [op |-> "forward", x |-> x, error |-> o.error,
                          out |-> o.out, calls |-> o.calls, info |-> o.info]
    /\ UNCHANGED <<patches, tiles, tensor, env>>

\* after import of the module (lines 17-22), for each kind of host
Imported(host) ==
    /\ tiles = NoTiles
    /\ tensor = NoTensor
    /\ MachineImported
    /\ env = host

\* one context manager at a time, every request size
HostOneScope ==
    [slots |-> {1}, dims |-> RequestDims, cells |-> 1..MaxLatent,
     sd_models |-> {None, "diffusers"}, backends |-> {"DIFFUSERS"}, enabled |-> {TRUE},
     nests |-> FALSE]

\* every slot in use, the largest request size only
HostManyScopes ==
    [slots |-> ScopeIds, dims |-> {8 * MaxLatent}, cells |-> {MaxLatent},
     sd_models |-> {None, "diffusers"}, backends |-> {"DIFFUSERS"}, enabled |-> {TRUE},
     nests |-> FALSE]

\* every holder, backend and setting, the request sizes that are multiples of 8
HostEveryHolder ==
    [slots |-> {1}, dims |-> {d \in RequestDims : d % 8 = 0}, cells |-> {MaxLatent},
     sd_models |-> SdModels, backends |-> Backends, enabled |-> BOOLEAN,
     nests |-> FALSE]

\* a host that enters a scope on a network while another one is active on
\* it, the smallest request size only
HostNested ==
    [slots |-> ScopeIds, dims |-> {8}, cells |-> {1},
     sd_models |-> {"diffusers"}, backends |-> {"DIFFUSERS"}, enabled |-> {TRUE},
     nests |-> TRUE]

Init == Imported(HostOneScope)
InitScopes == Imported(HostManyScopes)
InitHolders == Imported(HostEveryHolder)
InitNested == Imported(HostNested)

Next ==
    \/ context_hypertile_vae
    \/ context_hypertile_unet
    \/ hypertile_set
    \/ split_attention
    \/ \E s \in ScopeIds : EnterFailsOnRatio(s)
    \/ \E s \in ScopeIds : EnterYields(s)
    \/ \E s \in ScopeIds : EnterFailsPatching(s)
    \/ \E s \in ScopeIds : ScopeExit(s)
    \/ \E m \in ModuleIds : ForwardCall(m)

Spec == Init /\ [][Next]_vars
SpecScopes == InitScopes /\ [][Next]_vars
SpecHolders == InitHolders /\ [][Next]_vars
SpecNested == InitNested /\ [][Next]_vars

(***************************************************************************)
(* One call of the selector on arguments drawn from the bounds.            *)
(***************************************************************************)
MaxDimension == 48
MaxTileSize == 48
MaxMinTileSize == 16
MaxTileOptions == 3

\* the scenario of the specification: 512 px, target 256, minimum 256
ScenarioCall == [dimension |-> 512, tile_size |-> 256, min_tile_size |-> 256,
                 tile_options |-> 1]

TileCalls ==
    [dimension : 0..MaxDimension, tile_size : 1..MaxTileSize,
     min_tile_size : 1..MaxMinTileSize, tile_options : 0..MaxTileOptions]
    \cup {ScenarioCall}


InitTiles ==
    /\ \E a \in TileCalls : tiles = [pc |-> "call", args |-> a]
    /\ tensor = NoTensor
    /\ MachineIdle

\* assert tile_options >= 1
TilesAssertFails ==
    /\ tiles.pc = "call"
    /\ tiles.args.tile_options < 1
    /\ tiles' = [pc |-> "raise", args |-> tiles.args, error |-> "AssertionError"]
    /\ UNCHANGED <<tensor, machine, env>>

TilesReturn ==
    /\ tiles.pc = "call"
    /\ tiles.args.tile_options >= 1
    /\ \E r \in possible_tile_sizes(tiles.args.dimension, tiles.args.tile_size,
                                    tiles.args.min_tile_size, tiles.args.tile_options) :
           tiles' = [pc |-> "return", args |-> tiles.args, result |-> r]
    /\ UNCHANGED <<tensor, machine, env>>

NextTiles == TilesAssertFails \/ TilesReturn

SpecTiles == InitTiles /\ [][NextTiles]_vars


(***************************************************************************)
(* One partition and reassembly of a tensor, shapes drawn from the bounds. *)
(***************************************************************************)
MaxBatch == 2
MaxChannels == 2
MaxGrid == 2
MaxTileEdge == 2

InitTensor ==
    /\ tiles = NoTiles
    /\ MachineIdle
    /\ \E rank \in {3, 4}, b \in 1..MaxBatch, c \in 1..MaxChannels,
          nh \in 1..MaxGrid, nw \in 1..MaxGrid,
          h \in 1..MaxTileEdge, w \in 1..MaxTileEdge :
          LET x == IF rank = 4 THEN Iota(<<b, c, nh * h, nw * w>>)
                   ELSE Iota(<<b, nh * h * nw * w, c>>)
          IN  tensor = [pc |-> "input", rank |-> rank, nh |-> nh, nw |-> nw,
                        h |-> h, w |-> w, x |-> x, out |-> x]

\* line 69
TensorPartition4D ==
    /\ tensor.pc = "input"
    /\ tensor.rank = 4
    /\ Partition4DOk(tensor.x, tensor.nh, tensor.nw)
    /\ tensor' = [tensor EXCEPT !.pc = "partitioned",
                                !.out = Partition4D(tensor.x, tensor.nh, tensor.nw)]
    /\ UNCHANGED <<tiles, machine, env>>

\* line 72
TensorReassemble4D ==
    /\ tensor.pc = "partitioned"
    /\ tensor.rank = 4
    /\ Reassemble4DOk(tensor.out, tensor.nh, tensor.nw)
    /\ tensor' = [tensor EXCEPT !.pc = "reassembled",
                                !.out = Reassemble4D(tensor.out, tensor.nh, tensor.nw)]
    /\ UNCHANGED <<tiles, machine, env>>

\* line 101
TensorPartitionSeq ==
    /\ tensor.pc = "input"
    /\ tensor.rank = 3
    /\ PartitionSeqOk(tensor.x, tensor.h, tensor.w, tensor.nh, tensor.nw)
    /\ tensor' = [tensor EXCEPT !.pc = "partitioned",
                                !.out = PartitionSeq(tensor.x, tensor.h, tensor.w,
                                                     tensor.nh, tensor.nw)]
    /\ UNCHANGED <<tiles, machine, env>>

\* line 104
TensorSplitBatch ==
    /\ tensor.pc = "partitioned"
    /\ tensor.rank = 3
    /\ SplitBatchOk(tensor.out, tensor.nh, tensor.nw)
    /\ tensor' = [tensor EXCEPT !.pc = "split",
                                !.out = SplitBatch(tensor.out, tensor.nh, tensor.nw)]
    /\ UNCHANGED <<tiles, machine, env>>

\* line 105
TensorMergeTiles ==
    /\ tensor.pc = "split"
    /\ MergeTilesOk(tensor.out, tensor.h, tensor.w)
    /\ tensor' = [tensor EXCEPT !.pc = "reassembled",
                                !.out = MergeTiles(tensor.out, tensor.h, tensor.w)]
    /\ UNCHANGED <<tiles, machine, env>>

NextTensor ==
    \/ TensorPartition4D
    \/ TensorReassemble4D
    \/ TensorPartitionSeq
    \/ TensorSplitBatch
    \/ TensorMergeTiles

SpecTensor == InitTensor /\ [][NextTensor]_vars


(***************************************************************************)
(* Properties of the tile size selector (checked under SpecTiles)          *)
(***************************************************************************)
Returned == tiles.pc = "return"
Elements(seq) == {seq[i] : i \in DOMAIN seq}

\* C3: for dimension >= 1 and tile_size, min_tile_size, tile_options >= 1,
\* every n that possible_tile_sizes returns divides dimension, leaves a tile
\* edge dimension // n that is a multiple of 8, and that edge is at least
\* min(min_tile_size, tile_size, dimension).
C3_CandidatesAlignedAndAboveMin ==
    (Returned /\ tiles.args.dimension >= 1) =>
        \A n \in Elements(tiles.result) :
            /\ n >= 1
            /\ tiles.args.dimension % n = 0
            /\ (tiles.args.dimension \div n) % 8 = 0
            /\ tiles.args.dimension \div n >=
                   Min2(tiles.args.min_tile_size,
                        Min2(tiles.args.tile_size, tiles.args.dimension))

\* a call that returned several candidates, one of them a real split
C3_Witness ==
    /\ Returned
    /\ Len(tiles.result) >= 2
    /\ \E n \in Elements(tiles.result) : n > 2

\* The selection C4 describes: the qualifying divisors ranked by ascending
\* distance of the tile edge from tile_size, equal distances by ascending n.
QualifyingDivisors(a) ==
    {n \in 1..a.dimension :
        /\ a.dimension % n = 0
        /\ (a.dimension \div n) % 8 = 0
        /\ a.dimension \div n >= Min2(a.min_tile_size, Min2(a.tile_size, a.dimension))}

RankedBefore(a, m, n) ==
    LET dm == Abs((a.dimension \div m) - a.tile_size)
        dn == Abs((a.dimension \div n) - a.tile_size)
    IN  dm < dn \/ (dm = dn /\ m < n)

RankedSelection(a) ==
    LET Q == QualifyingDivisors(a)
        len == Min2(Cardinality(Q), a.tile_options)
    IN  [i \in 1..len |->
            CHOOSE n \in Q : Cardinality({m \in Q : RankedBefore(a, m, n)}) = i - 1]

\* C4: possible_tile_sizes returns exactly the first tile_options qualifying
\* divisors ranked by ascending |dimension // n - tile_size|, ties broken by
\* ascending n (so at most tile_options of them, closest first, and [2] for
\* dimension 512, tile size 256, minimum 256, one option).
C4_RankedClosestFirstTiesByN ==
    Returned => tiles.result = RankedSelection(tiles.args)

\* C5: for a dimension that is a positive multiple of 8,
\* possible_tile_sizes(dimension, dimension, 1, 1) contains n = 1.
C5_NoSplitIsCandidate ==
    (/\ Returned
     /\ tiles.args.dimension >= 1
     /\ tiles.args.dimension % 8 = 0
     /\ tiles.args.tile_size = tiles.args.dimension
     /\ tiles.args.min_tile_size = 1
     /\ tiles.args.tile_options = 1)
        => 1 \in Elements(tiles.result)

\* possible_tile_sizes(16, 16, 1, 1) returned: n = 2 qualifies too
C5_Witness ==
    /\ Returned
    /\ tiles.args = [dimension |-> 16, tile_size |-> 16, min_tile_size |-> 1,
                     tile_options |-> 1]
    /\ tiles.result = <<1>>

(***************************************************************************)
(* Properties of the rearrangements (checked under SpecTensor)             *)
(***************************************************************************)

\* C6: a 4-D tensor (b, c, nh*h, nw*w) partitioned into the nh x nw tile
\* grid folded into the batch dimension and reassembled with the same
\* (nh, nw) has its original shape and its original value at every position.
C6_RoundTrip4D ==
    (tensor.pc = "reassembled" /\ tensor.rank = 4) =>
        /\ tensor.out.shape = tensor.x.shape
        /\ \A k \in DOMAIN tensor.x.data : tensor.out.data[k] = tensor.x.data[k]

\* a reassembled 4-D tensor whose partition moved elements
C6_Witness ==
    /\ tensor.pc = "reassembled"
    /\ tensor.rank = 4
    /\ tensor.nh > 1
    /\ tensor.nw > 1
    /\ Partition4D(tensor.x, tensor.nh, tensor.nw).data # tensor.x.data

\* C7: a flattened sequence tensor (b, h*w, c) partitioned into nh*nw tiles
\* (nh divides h, nw divides w) and reassembled in the wrapper's two steps
\* has its original shape and its original value at every position.
C7_RoundTripSeq ==
    (tensor.pc = "reassembled" /\ tensor.rank = 3) =>
        /\ tensor.out.shape = tensor.x.shape
        /\ \A k \in DOMAIN tensor.x.data : tensor.out.data[k] = tensor.x.data[k]

\* a reassembled sequence tensor whose partition moved elements
C7_Witness ==
    /\ tensor.pc = "reassembled"
    /\ tensor.rank = 3
    /\ tensor.nh > 1
    /\ tensor.nw > 1
    /\ PartitionSeq(tensor.x, tensor.h, tensor.w, tensor.nh, tensor.nw).data
           # tensor.x.data


(***************************************************************************)
(* Properties of the scoped patching (checked under SpecScopes)            *)
(***************************************************************************)
ScopeLeft == last.op = "exit" \/ (last.op = "enter" /\ last.error # "")

\* C1: when a split_attention scope has been left, by the end of the with
\* block, by an exception raised inside it or by an exception while
\* patching, every submodule the scope patched has the forward handle it had
\* before the scope was entered, and no submodule of the scope's network
\* carries _original_forward.
C1_ExitRestoresForward ==
    ScopeLeft =>
        /\ \A m \in last.patched : forward[m] = last.before[m]
        /\ \A m \in LayerIds(last.layer) : original_forward[m] = NoAttribute

\* a scope that patched submodules was left by an exception raised in it
C1_Witness ==
    /\ last.op = "exit"
    /\ last.by_exception
    /\ Cardinality(last.patched) >= 2

ActiveScopes == {s \in ScopeIds : scope[s].pc = "active"}

SelfAttention == {"unet.attn1", "vae.attn_1", "vae.attn"}

\* C9: while a scope is active the wrapped submodules of its network are
\* exactly its self-attention submodules, every other submodule keeps its
\* forward handle, and a scope on a network without such a submodule patches
\* nothing and leaves every handle as it was.
C9_ExactlySelfAttentionWrapped ==
    /\ \A s \in ActiveScopes :
          /\ scope[s].patched = LayerIds(scope[s].layer) \cap SelfAttention
          /\ \A m \in LayerIds(scope[s].layer) :
                forward[m] # OriginalForward <=> m \in SelfAttention
    /\ \A m \in ModuleIds \ SelfAttention :
          forward[m] = OriginalForward /\ original_forward[m] = NoAttribute
    /\ (/\ last.op = "exit" \/ (last.op = "enter" /\ last.error = "")
        /\ last.layer = "plain") =>
          /\ last.patched = {}
          /\ \A m \in LayerIds("plain") :
                forward[m] = last.before[m] /\ original_forward[m] = NoAttribute

\* a scope is active on the UNet, another one on the network without
\* attention submodules
C9_Witness ==
    \E s, t \in ActiveScopes : scope[s].layer = "unet" /\ scope[t].layer = "plain"

(***************************************************************************)
(* Properties of the wrapper (checked under Spec)                          *)
(***************************************************************************)

\* C8: in an intercepted forward call, of either rank, whose tile grid has
\* nh * nw = 1, nothing is partitioned: the wrapped forward receives the
\* call's input itself, and what the call returns is that forward's result.
C8_SingleTileGridPassesThrough ==
    (/\ last.op = "forward"
     /\ last.info.grid # <<>>
     /\ last.info.grid[1] * last.info.grid[2] = 1)
        => /\ ~last.info.split
           /\ Len(last.calls) >= 1
           /\ \A i \in DOMAIN last.calls : last.calls[i] = last.x
           /\ last.error = "" => last.out = OriginalResult(last.x)

\* a flattened-sequence call whose drawn tile counts were scaled down to the
\* 1 x 1 grid returned
C8_Witness ==
    /\ last.op = "forward"
    /\ last.error = ""
    /\ Len(last.x.shape) = 3
    /\ last.info.grid = <<1, 1>>
    /\ \E s \in ActiveScopes : scope[s].nhs[1] * scope[s].nws[1] > 1

(***************************************************************************)
(* Properties of the context functions (checked under SpecHolders)         *)
(***************************************************************************)

\* the UNet a holder provides: a holder without the attribute model
\* provides none
LocateUnetGuarded(sd_model, backend) ==
    IF backend = "DIFFUSERS" THEN GetAttr(Holders[sd_model], "unet")
    ELSE IF Holders[sd_model].model \in {Absent, None} THEN None
    ELSE GetAttr(Wrappers[Holders[sd_model].model], "diffusion_model")

\* the submodule a holder provides for a stage, None when there is none
TargetOf(stage, sd_model, backend) ==
    IF sd_model = None THEN None
    ELSE IF stage = "vae" THEN LocateVae(sd_model, backend)
    ELSE LocateUnetGuarded(sd_model, backend)

\* C10: a call of context_hypertile_vae / context_hypertile_unet leaves
\* error_reported false, height and width those of the request and
\* max_h = max_w = 0; when the option is off or the holder has no target
\* submodule it returns the no-op scope, and it does not raise.
C10_ContextResetsAndSkips ==
    last.op = "context" =>
        /\ error_reported = FALSE
        /\ height = last.p.height
        /\ width = last.p.width
        /\ max_h = 0
        /\ max_w = 0
        /\ last.result # "raise"
        /\ (~last.enabled \/ TargetOf(last.stage, last.p.sd_model, last.backend) = None)
               => last.result = "nullcontext"

(***************************************************************************)
(* Properties of the bookkeeping of flattened-sequence calls (checked      *)
(* under Spec, where one scope at a time is active)                        *)
(***************************************************************************)

\* the step is an intercepted call with a flattened-sequence input
SeqForward == last'.op = "forward" /\ Len(last'.x.shape) = 3

\* the lists the selector can return for a dimension with scope s's settings
Candidates(s, dimension) ==
    possible_tile_sizes(dimension, scope[s].tile_size, scope[s].min_tile_size,
                        scope[s].swap_size)

\* C11: hypertile_set leaves height and width those of the request and
\* reset_needed true; the next intercepted flattened-sequence call then
\* regenerates both candidate lists from that height and width, sets max_h
\* and max_w to them and clears reset_needed; and only hypertile_set turns
\* reset_needed on.
C11_ResetRegeneratesCandidates ==
    [][/\ last'.op = "hypertile_set" =>
            height' = last'.height /\ width' = last'.width /\ reset_needed'
       /\ (reset_needed /\ SeqForward) =>
            /\ ~reset_needed'
            /\ max_h' = height /\ max_w' = width
            /\ height' = height /\ width' = width
            /\ \A s \in ActiveScopes : /\ scope'[s].nhs \in Candidates(s, height)
                                       /\ scope'[s].nws \in Candidates(s, width)
       /\ (~reset_needed /\ reset_needed') => last'.op = "hypertile_set"]_vars

\* C12: when a failure during the partitioned execution of a
\* flattened-sequence call was caught, the fallback invocation of the
\* original forward, the last one of the call, received the call's own,
\* unpartitioned input.
C12_FallbackGetsOriginalInput ==
    (/\ last.op = "forward"
     /\ Len(last.x.shape) = 3
     /\ last.info.split
     /\ last.info.caught)
        => /\ Len(last.calls) >= 1
           /\ last.calls[Len(last.calls)] = last.x

\* C13: within one scope a partition failure is logged exactly once: a
\* caught failure is logged when it is the first one the scope's wrappers
\* have caught, and is silent when the scope has caught one before, whatever
\* forward calls and state-tracker calls came in between.
C13_FailureLoggedOncePerScope ==
    [][(last'.op = "forward" /\ last'.info.caught) =>
          \A s \in ActiveScopes : last'.info.logged <=> ~scope[s].caught]_vars

\* C14: when the wrapper did not try to partition the input, an exception
\* of the original forward is no partition failure: the forward is invoked
\* once, nothing is caught or logged, and what it raises is what the call
\* raises; and a scope left by an exception has restored the handles.
C14_OtherExceptionsPropagate ==
    /\ (/\ last.op = "forward"
        /\ ~last.info.tried
        /\ Len(last.calls) >= 1)
          => /\ Len(last.calls) = 1
             /\ ~last.info.caught
             /\ ~last.info.logged
             /\ last.error \in {"", "ForwardError"}
    /\ (last.op = "exit" /\ last.by_exception) =>
          \A m \in last.patched : forward[m] = last.before[m]

\* round(math.sqrt(ar * hw)) and round(math.sqrt(hw / ar)) for scope s
StageH(s, x) == RoundSqrt(scope[s].ar[1] * x.shape[2], scope[s].ar[2])
StageW(s, x) == RoundSqrt(scope[s].ar[2] * x.shape[2], scope[s].ar[1])

\* the grid of the call that ends the step is a drawn pair of tile counts of
\* scope s, each scaled to max(1, n // down_ratio), and the depth, the
\* divisibility of h and w and the number of tiles allow the split
SplitConditions(s) ==
    LET h == StageH(s, last'.x)
        w == StageW(s, last'.x)
        down_ratio == (height' \div 8) \div h
        nh == last'.info.grid[1]
        nw == last'.info.grid[2]
    IN  /\ \E a \in Elements(scope[s].nhs), b \in Elements(scope[s].nws) :
              nh = Max2(1, a \div down_ratio) /\ nw = Max2(1, b \div down_ratio)
        /\ RoundLog2(down_ratio) <= scope[s].depth
        /\ h % nh = 0
        /\ w % nw = 0
        /\ nh * nw > 1

\* the call's grid is made of scaled drawn tile counts of scope s
ScaledGrid(s) ==
    LET down_ratio == (height' \div 8) \div StageH(s, last'.x)
    IN  \E a \in Elements(scope[s].nhs), b \in Elements(scope[s].nws) :
            last'.info.grid = <<Max2(1, a \div down_ratio), Max2(1, b \div down_ratio)>>

\* every tensor the original forward received in the call is the call's input
Unpartitioned == \A i \in DOMAIN last'.calls : last'.calls[i] = last'.x

\* C15 as stated: in a flattened-sequence call that computes its depth the
\* input is partitioned if and only if depth <= threshold, h and w are
\* divisible by the scaled counts max(1, n // down_ratio) and nh * nw > 1;
\* otherwise the original forward receives the input unpartitioned.
C15_SplitIffConditions ==
    [][(SeqForward /\ last'.info.grid # <<>>) =>
          \A s \in ActiveScopes :
              /\ ScaledGrid(s)
              /\ last'.info.split <=> SplitConditions(s)
              /\ ~last'.info.split => Unpartitioned]_vars

\* C15 as amended: the input is partitioned if and only if the depth is
\* computed, the conditions hold and the sequence length is h * w (the
\* partition pattern fits); in every other case whatever the original
\* forward receives is the unpartitioned input.
C15_SplitIffConditionsAndFit ==
    [][SeqForward =>
          \A s \in ActiveScopes :
              /\ last'.info.grid # <<>> => ScaledGrid(s)
              /\ last'.info.split <=>
                    /\ last'.info.grid # <<>>
                    /\ SplitConditions(s)
                    /\ last'.x.shape[2] = StageH(s, last'.x) * StageW(s, last'.x)
              /\ ~last'.info.split => Unpartitioned]_vars

\* a flattened-sequence call partitioned its input and returned
C15_Witness ==
    /\ last.op = "forward"
    /\ Len(last.x.shape) = 3
    /\ last.info.split
    /\ ~last.info.caught
    /\ last.error = ""

\* scope s holds an empty candidate list
NoCandidates(s) == Len(scope[s].nhs) = 0 \/ Len(scope[s].nws) = 0

\* C16: when the selector returned an empty list for the height or the
\* width, entering the scope does not raise on that account, and every
\* intercepted call inside the scope is served without splitting: the
\* original forward is invoked on the call's input and the call raises
\* nothing but what that forward raises.
C16_EmptyCandidatesServeUnsplit ==
    [][/\ (/\ last'.op = "enter"
           /\ height # NoneSize /\ width # NoneSize /\ width # 0
           /\ <<>> \in Candidates(last'.scope, height) \cup Candidates(last'.scope, width))
             => last'.error \in {"", "PatchError"}
       /\ (last'.op = "forward" /\ \E s \in ActiveScopes : NoCandidates(s))
             => /\ last'.error \in {"", "ForwardError"}
                /\ ~last'.info.split
                /\ Len(last'.calls) >= 1
                /\ \A i \in DOMAIN last'.calls : last'.calls[i] = last'.x]_vars

\* since the last context call the trackers have only been moved by calls
\* that saw a new maximum: nothing seen yet, or the pixel size is 8 * maximum
Tracking ==
    /\ ~reset_needed
    /\ max_h = 0 \/ height = 8 * max_h
    /\ max_w = 0 \/ width = 8 * max_w

\* C17: with no reset pending, a flattened-sequence call leaves max_h the
\* largest h seen so far and height = 8 * max_h (likewise max_w and width):
\* when its h (w) exceeds the recorded maximum the height (width) list is the
\* selector's result for the new height (width), otherwise height (width),
\* the maximum and the list stay as they were.
C17_MaximaTrackLargestSeen ==
    [][(SeqForward /\ Tracking) =>
          \A s \in ActiveScopes :
              LET h == StageH(s, last'.x)
                  w == StageW(s, last'.x)
              IN  /\ max_h' = Max2(max_h, h)
                  /\ max_w' = Max2(max_w, w)
                  /\ height' = 8 * max_h'
                  /\ width' = 8 * max_w'
                  /\ IF h > max_h THEN scope'[s].nhs \in Candidates(s, 8 * h)
                     ELSE height' = height /\ scope'[s].nhs = scope[s].nhs
                  /\ IF w > max_w THEN scope'[s].nws \in Candidates(s, 8 * w)
                     ELSE width' = width /\ scope'[s].nws = scope[s].nws]_vars

\* C18: in every flattened-sequence call that reaches line 93, h is at
\* least 1 and the downscale ratio height // 8 // h, taken with the height
\* the bookkeeping has left, is at least 1, so that the call fails neither
\* with a division by zero nor with the logarithm of zero.
C18_DownRatioAtLeastOne ==
    [][(SeqForward /\ \A s \in ActiveScopes : ~NoCandidates(s)) =>
          \A s \in ActiveScopes :
              /\ StageH(s, last'.x) >= 1
              /\ (height' \div 8) \div StageH(s, last'.x) >= 1
              /\ last'.error \notin {"ZeroDivisionError", "ValueError"}]_vars

(***************************************************************************)
(* Properties of nested scopes (checked under SpecNested)                  *)
(***************************************************************************)

\* C19: when scopes were entered on a network while another scope on it was
\* active, then once the last of them has exited, whatever the order of the
\* exits, every submodule has the forward handle it had before the first of
\* them was entered, the class's own forward, and carries no saved handle;
\* and the exit of a scope changes no handle of a submodule outside its
\* network.
C19_NestedScopesRestore ==
    [][last'.op = "exit" =>
          /\ ActiveScopes' = {} =>
                \A m \in ModuleIds : /\ forward'[m] = OriginalForward
                                     /\ original_forward'[m] = NoAttribute
          /\ \A m \in ModuleIds \ LayerIds(last'.layer) :
                /\ forward'[m] = forward[m]
                /\ original_forward'[m] = original_forward[m]]_vars

=============================================================================
